---- MODULE Spec2Model ----
\* A model of yad, a Yandex.Disk REST client (package yad): the Client's
\* operations, the transport helpers they are built from, and the Link queries.
\* Go strings are modelled as sequences of one-character strings, so that
\* concatenation, substring search, splitting and URL parsing are computed.
EXTENDS Integers, Sequences, FiniteSets, TLC

VARIABLES URL, pc, call, reqs, resps, ret, dir, changes, list, offset

vars == <<URL, pc, call, reqs, resps, ret, dir, changes, list, offset>>

\* ------------------------------------------------------------------ bounds
\* The largest directory the server holds when ListAll starts.
MaxItems == 201

\* How many times the directory may change while one ListAll call runs.
MaxChanges == 1

\* ------------------------------------------------------- string primitives
Letters == {"a","b","c","d","e","f","g","h","i","j","k","l","m","n","o","p",
            "q","r","s","t","u","v","w","x","y","z",
            "A","B","C","D","E","F","G","H","I","J","K","L","M","N","O","P",
            "Q","R","S","T","U","V","W","X","Y","Z"}

Digits == {"0","1","2","3","4","5","6","7","8","9"}

HexChars == Digits \cup {"a","b","c","d","e","f","A","B","C","D","E","F"}

\* strings.Index(s, c) for a one-character c, 1-based; 0 when c is absent.
IndexOf(s, c) ==
    IF \E i \in 1..Len(s) : s[i] = c
    THEN CHOOSE i \in 1..Len(s) : s[i] = c /\ \A j \in 1..(i-1) : s[j] # c
    ELSE 0

\* strings.LastIndex(s, c), 1-based; 0 when c is absent.
LastIndexOf(s, c) ==
    IF \E i \in 1..Len(s) : s[i] = c
    THEN CHOOSE i \in 1..Len(s) : s[i] = c /\ \A j \in (i+1)..Len(s) : s[j] # c
    ELSE 0

\* strings.HasPrefix
HasPrefix(s, p) == Len(s) >= Len(p) /\ SubSeq(s, 1, Len(p)) = p

\* strings.Contains
Contains(s, sub) ==
    \E i \in 1..(Len(s) - Len(sub) + 1) : SubSeq(s, i, i + Len(sub) - 1) = sub

\* s[i:] of Go, with a 1-based first index.
From(s, i) == SubSeq(s, i, Len(s))

\* strings.Split(s, "/"): the pieces between the separators, none dropped.
RECURSIVE Split(_, _)
Split(s, sep) ==
    CHOOSE parts \in
        {IF i = 0 THEN <<s>>
         ELSE <<SubSeq(s, 1, i - 1)>>
              \o (CHOOSE more \in {Split(t, sep) : t \in {From(s, i + 1)}} : TRUE) :
            i \in {IndexOf(s, sep)}} : TRUE

\* strconv.Itoa for n >= 0: the decimal digits of n.
DigitChar(d) == CASE d = 0 -> "0" [] d = 1 -> "1" [] d = 2 -> "2" [] d = 3 -> "3"
                  [] d = 4 -> "4" [] d = 5 -> "5" [] d = 6 -> "6" [] d = 7 -> "7"
                  [] d = 8 -> "8" [] d = 9 -> "9"

RECURSIVE Itoa(_)
Itoa(n) == IF n < 10 THEN <<DigitChar(n)>>
           ELSE Itoa(n \div 10) \o <<DigitChar(n % 10)>>

\* fmt.Sprintf("%t", b)
FormatBool(b) == IF b THEN <<"t","r","u","e">> ELSE <<"f","a","l","s","e">>

\* ----------------------------------------------------------- net/url model
\* url.Parse on the alphabet the model uses (letters, digits and / : ? # % = . -):
\* the fragment is cut at the first '#', the scheme ends at the first ':' that
\* follows only scheme characters, the query is cut at the first '?', a
\* leading "//" starts the authority, and a '%' that is not followed by two
\* hex digits is an invalid escape.
BadEscape(s) ==
    \E i \in 1..Len(s) :
        s[i] = "%" /\ ~(i + 2 <= Len(s) /\ s[i+1] \in HexChars /\ s[i+2] \in HexChars)

SchemeStop(s) ==
    LET stops == {i \in 1..Len(s) :
                     ~(s[i] \in Letters \/ (i > 1 /\ s[i] \in Digits \cup {"+", "-", "."}))}
    IN  IF stops = {} THEN 0 ELSE CHOOSE i \in stops : \A j \in stops : i <= j

ParseError == [ok |-> FALSE, Scheme |-> <<>>, Opaque |-> <<>>, Path |-> <<>>,
               RawQuery |-> <<>>, ForceQuery |-> FALSE]

\* The element of a one-element set.  The steps of Parse hand their values on
\* through one-element sets, so that each value is computed once.
The(S) == CHOOSE x \in S : TRUE

\* setPath and setFragment: an invalid escape fails the parse.
ParsePath(scheme, path, query, force, frag) ==
    IF BadEscape(path) \/ BadEscape(frag) THEN ParseError
    ELSE [ok |-> TRUE, Scheme |-> scheme, Opaque |-> <<>>, Path |-> path,
          RawQuery |-> query, ForceQuery |-> force]

\* After the scheme and the query are cut off: an opaque URL, a first segment
\* with a colon, or an authority followed by the path.
ParseRest(scheme, rest, query, force, frag) ==
    LET slash == HasPrefix(rest, <<"/">>)
        seg   == IF IndexOf(rest, "/") = 0 THEN rest
                 ELSE SubSeq(rest, 1, IndexOf(rest, "/") - 1)
        auth  == (scheme # <<>> \/ ~HasPrefix(rest, <<"/","/","/">>))
                 /\ HasPrefix(rest, <<"/","/">>)
    IN  IF ~slash /\ scheme # <<>>
        THEN [ok |-> ~BadEscape(frag), Scheme |-> scheme, Opaque |-> rest,
              Path |-> <<>>, RawQuery |-> query, ForceQuery |-> force]
        ELSE IF ~slash /\ IndexOf(seg, ":") > 0 THEN ParseError
        ELSE IF ~auth THEN ParsePath(scheme, rest, query, force, frag)
        ELSE The({ParsePath(scheme, path, query, force, frag) :
                    path \in {The({IF IndexOf(after, "/") = 0 THEN <<>>
                                   ELSE From(after, IndexOf(after, "/")) :
                                       after \in {From(rest, 3)}})}})

\* The query is cut at the first '?'; a lone trailing '?' forces an empty query.
ParseQuery(scheme, rest, frag) ==
    The({The({ParseRest(scheme, r, query, q > 0 /\ q = Len(rest), frag) :
                r \in {IF q = 0 THEN rest ELSE SubSeq(rest, 1, q - 1)},
                query \in {IF q = 0 THEN <<>> ELSE From(rest, q + 1)}}) :
            q \in {IndexOf(rest, "?")}})

\* getScheme: a ':' at the start is an error, one after scheme characters ends
\* the scheme, and anything else means there is no scheme.
ParseScheme(u, frag) ==
    The({IF st > 0 /\ u[st] = ":"
         THEN (IF st = 1 THEN ParseError
               ELSE The({ParseQuery(scheme, rest, frag) :
                           scheme \in {SubSeq(u, 1, st - 1)}, rest \in {From(u, st + 1)}}))
         ELSE ParseQuery(<<>>, u, frag) :
            st \in {SchemeStop(u)}})

Parse(rawURL) ==
    The({The({ParseScheme(u, frag) :
                u \in {IF h = 0 THEN raw ELSE SubSeq(raw, 1, h - 1)},
                frag \in {IF h = 0 THEN <<>> ELSE From(raw, h + 1)}}) :
            raw \in {rawURL}, h \in {IndexOf(rawURL, "#")}})

\* (*URL).RequestURI: the opaque part or the escaped path ("/" when empty),
\* followed by "?" and the raw query when there is one.
RequestURI(u) ==
    LET result == IF u.Opaque # <<>>
                  THEN (IF HasPrefix(u.Opaque, <<"/","/">>)
                        THEN u.Scheme \o <<":">> \o u.Opaque ELSE u.Opaque)
                  ELSE IF u.Path = <<>> THEN <<"/">> ELSE u.Path
    IN  IF u.ForceQuery \/ u.RawQuery # <<>>
        THEN result \o <<"?">> \o u.RawQuery ELSE result

\* ------------------------------------------------------ string constants
\* Default Yandex server address.
defaultURL == <<"h","t","t","p","s",":","/","/","c","l","o","u","d","-","a","p","i",".","y","a","n","d","e","x",".","n","e","t","/","v","1","/","d","i","s","k","/">>

MethodGet == <<"G","E","T">>

MethodPost == <<"P","O","S","T">>

MethodPut == <<"P","U","T">>

MethodDelete == <<"D","E","L","E","T","E">>

\* The endpoints, relative to the client's URL.
EpRoot == <<>>

EpResources == <<"r","e","s","o","u","r","c","e","s">>

EpDownload == <<"r","e","s","o","u","r","c","e","s","/","d","o","w","n","l","o","a","d">>

EpUpload == <<"r","e","s","o","u","r","c","e","s","/","u","p","l","o","a","d">>

EpCopy == <<"r","e","s","o","u","r","c","e","s","/","c","o","p","y">>

EpMove == <<"r","e","s","o","u","r","c","e","s","/","m","o","v","e">>

EpTrash == <<"t","r","a","s","h","/","r","e","s","o","u","r","c","e","s">>

EpTrashRestore == <<"t","r","a","s","h","/","r","e","s","o","u","r","c","e","s","/","r","e","s","t","o","r","e">>

EpOperations == <<"o","p","e","r","a","t","i","o","n","s">>

\* The substring IsOperation looks for.
OperationsMark == <<"/","d","i","s","k","/","o","p","e","r","a","t","i","o","n","s">>

SortName == <<"n","a","m","e">>

\* The status strings of the operations endpoint.
StSuccess == <<"s","u","c","c","e","s","s">>

StFailure == <<"f","a","i","l","u","r","e">>

StInProgress == <<"i","n","-","p","r","o","g","r","e","s","s">>


\* ------------------------------------------------------------- data model
\* Status of operation type.
StatusFailure == 0

StatusInProgress == 1

StatusSuccess == 2

\* ResourceType
ResourceTypeUnknown == 0

ResourceTypeDir == 1

ResourceTypeFile == 2

\* net/http status codes the code names.
StatusCreated == 201

StatusAccepted == 202

StatusNoContent == 204

\* *Link: nil, or a Link with its three fields.
NilLink == [nil |-> TRUE, Href |-> <<>>, Method |-> <<>>, Templated |-> FALSE]

Link(href, method, templated) ==
    [nil |-> FALSE, Href |-> href, Method |-> method, Templated |-> templated]

\* error values: nil, *Error (readErrBody), an encoding/json error, a transport
\* error of HTTP.Do, and the errors made with errors.New / fmt.Errorf.
NoErr == [kind |-> "nil", StatusCode |-> 0, msg |-> ""]

ErrorValue(status) == [kind |-> "Error", StatusCode |-> status, msg |-> ""]

JSONErr == [kind |-> "json", StatusCode |-> 0, msg |-> ""]

NetErr == [kind |-> "net", StatusCode |-> 0, msg |-> ""]

TextErr(m) == [kind |-> "text", StatusCode |-> 0, msg |-> m]

\* *ResourceList: nil, or a list with Items and Limit (Offset stays as decoded).
NilList == [nil |-> TRUE, Items |-> <<>>, Limit |-> 0]

ResourceList(items, limit) == [nil |-> FALSE, Items |-> items, Limit |-> limit]

\* A response body as encoding/json sees it: not JSON at all ("bad", which
\* covers the empty body), the JSON null, or a JSON object, of which the
\* model keeps the members the code decodes; an absent member is the field's
\* zero value.  type is the raw "type" member: "dir", "file", some other
\* string ("other"), absent ("absent") or not a JSON string ("malformed").
JSONBody(kind, href, method, templated, status, type, embedded, items) ==
    [kind |-> kind, href |-> href, method |-> method, templated |-> templated,
     status |-> status, type |-> type, embedded |-> embedded, items |-> items]

BadBody == JSONBody("bad", <<>>, <<>>, FALSE, <<>>, "absent", FALSE, <<>>)

NullBody == JSONBody("null", <<>>, <<>>, FALSE, <<>>, "absent", FALSE, <<>>)

\* An object with none of the members above, such as an Error body.
EmptyObject == JSONBody("obj", <<>>, <<>>, FALSE, <<>>, "absent", FALSE, <<>>)

LinkBody(href, method, templated) ==
    JSONBody("obj", href, method, templated, <<>>, "absent", FALSE, <<>>)

StatusBody(status) ==
    JSONBody("obj", <<>>, <<>>, FALSE, status, "absent", FALSE, <<>>)

ResourceBody(type, embedded, items) ==
    JSONBody("obj", <<>>, <<>>, FALSE, <<>>, type, embedded, items)

\* What HTTP.Do gives back: a transport error, or a response.
Response(status, body) == [neterr |-> FALSE, StatusCode |-> status, Body |-> body]

TransportFailure == [neterr |-> TRUE, StatusCode |-> 0, Body |-> BadBody]

\* ResourceType.UnmarshalJSON
UnmarshalResourceType(type) ==
    CASE type = "malformed" -> [err |-> JSONErr, rt |-> ResourceTypeUnknown]
      [] type = "dir"       -> [err |-> NoErr, rt |-> ResourceTypeDir]
      [] type = "file"      -> [err |-> NoErr, rt |-> ResourceTypeFile]
      [] type = "other"     -> [err |-> NoErr, rt |-> ResourceTypeUnknown]
      [] OTHER              -> [err |-> NoErr, rt |-> ResourceTypeUnknown]

\* -------------------------------------------------------------------- Link
\* IsOperation that looks for "operations" alone.
IsOperationAnywhere(l) == Contains(l.Href, EpOperations)

\* IsOperation returns true if current Link represents operation object.
IsOperation(l) == Contains(l.Href, OperationsMark)

\* Operation returns operation ID.
Operation(l) ==
    IF IsOperation(l)
    THEN The({IF u.ok
              THEN The({IF Len(parts) > 0 THEN parts[Len(parts)] ELSE <<>> :
                          parts \in {Split(RequestURI(u), "/")}})
              ELSE <<>> :
                 u \in {Parse(l.Href)}})
    ELSE <<>>

\* --------------------------------------------------------------- transport
\* What a helper hands back: whether it panicked, the requests HTTP.Do sent,
\* and the values it returns.
Outcome(panic, sent, body, link, err) ==
    [panic |-> panic, sent |-> sent, body |-> body, link |-> link, err |-> err]

\* net/http's validMethod on the model's alphabet: a non-empty token.
ValidMethod(m) == m # <<>> /\ \A i \in 1..Len(m) : m[i] \in Letters \cup Digits

\* newRequest: http.NewRequest on c.URL+url; an empty method means GET.  When
\* NewRequest fails req is nil, and setting req.URL.RawQuery panics.
newRequest(method, url, vals) ==
    LET m == IF method = <<>> THEN MethodGet ELSE method
    IN  IF ValidMethod(m) /\ Parse(URL \o url).ok
        THEN [ok |-> TRUE, req |-> [Method |-> m, URL |-> URL \o url, Query |-> vals]]
        ELSE [ok |-> FALSE, req |-> [Method |-> m, URL |-> URL \o url, Query |-> vals]]

\* readErrBody that does not attach the status code.
readErrBodyNoStatus(r) ==
    IF r.Body.kind = "bad" THEN JSONErr ELSE ErrorValue(0)

readErrBody(r) ==
    IF r.Body.kind = "bad" THEN JSONErr ELSE ErrorValue(r.StatusCode)

\* readBody that takes 202 Accepted alone for a success.
readBodyAccepted(r) ==
    IF r.StatusCode # StatusAccepted
    THEN [body |-> BadBody, err |-> readErrBody(r)]
    ELSE [body |-> r.Body, err |-> NoErr]

readBody(r) ==
    IF r.StatusCode < 200 \/ r.StatusCode >= 300
    THEN [body |-> BadBody, err |-> readErrBody(r)]
    ELSE [body |-> r.Body, err |-> NoErr]

\* do after its newRequest: HTTP.Do, then readBody.
doRequest(nr, resp) ==
    IF ~nr.ok THEN Outcome(TRUE, <<>>, BadBody, NilLink, NoErr)
    ELSE IF resp.neterr THEN Outcome(FALSE, <<nr.req>>, BadBody, NilLink, NetErr)
    ELSE Outcome(FALSE, <<nr.req>>, readBody(resp).body, NilLink, readBody(resp).err)

do(method, url, vals, resp) == doRequest(newRequest(method, url, vals), resp)

\* json.Unmarshal(body, &link) on link := &Link{}: an object fills the Link, null
\* sets the pointer to nil, anything else is an error and leaves the Link empty.
UnmarshalLink(body) ==
    CASE body.kind = "obj"  -> [err |-> NoErr, link |-> Link(body.href, body.method, body.templated)]
      [] body.kind = "null" -> [err |-> NoErr, link |-> NilLink]
      [] OTHER              -> [err |-> JSONErr, link |-> Link(<<>>, <<>>, FALSE)]

\* requestLink after its do: the body is decoded into a Link.
decodeLink(d) ==
    LET u == UnmarshalLink(d.body)
    IN  IF d.panic \/ d.err # NoErr THEN d
        ELSE IF u.link.nil THEN Outcome(TRUE, d.sent, BadBody, NilLink, NoErr)
        ELSE IF u.link.Templated
             THEN Outcome(FALSE, d.sent, BadBody, NilLink, TextErr("unsupported templated link"))
        ELSE Outcome(FALSE, d.sent, BadBody, u.link, u.err)

requestLink(method, url, vals, resp) == decodeLink(do(method, url, vals, resp))

\* optionalOp that treats the response the way requestLink does.
optionalOpAsLink(nr, resp) == decodeLink(doRequest(nr, resp))

\* requestOptionalOp after its newRequest: HTTP.Do, then the status decides.
optionalOp(nr, resp) ==
    LET rb == readBody(resp)
        u  == UnmarshalLink(rb.body)
    IN  IF ~nr.ok THEN Outcome(TRUE, <<>>, BadBody, NilLink, NoErr)
        ELSE IF resp.neterr THEN Outcome(FALSE, <<nr.req>>, BadBody, NilLink, NetErr)
        ELSE IF resp.StatusCode = StatusNoContent
             THEN Outcome(FALSE, <<nr.req>>, BadBody, NilLink, NoErr)
        ELSE IF resp.StatusCode = StatusAccepted
             THEN IF rb.err # NoErr THEN Outcome(FALSE, <<nr.req>>, BadBody, NilLink, rb.err)
                  ELSE IF u.err # NoErr THEN Outcome(FALSE, <<nr.req>>, BadBody, NilLink, u.err)
                  ELSE IF u.link.nil THEN Outcome(TRUE, <<nr.req>>, BadBody, NilLink, NoErr)
                  ELSE IF u.link.Templated
                       THEN Outcome(FALSE, <<nr.req>>, BadBody, NilLink,
                                    TextErr("unsupported templated link"))
                  ELSE Outcome(FALSE, <<nr.req>>, BadBody, u.link, NoErr)
        ELSE Outcome(FALSE, <<nr.req>>, BadBody, NilLink, readErrBody(resp))

requestOptionalOp(method, url, vals, resp) ==
    optionalOp(newRequest(method, url, vals), resp)


\* ------------------------------------------------------------- url.Values
\* url.Values as the set of its <<key, value>> pairs; Set replaces the key.
NoVals == {}

Set(vals, key, value) == {kv \in vals : kv[1] # key} \cup {<<key, value>>}

Has(vals, key) == \E kv \in vals : kv[1] = key

Get(vals, key) == IF Has(vals, key) THEN (CHOOSE kv \in vals : kv[1] = key)[2] ELSE <<>>

\* ----------------------------------------------------------- call records
\* The operation being called with its arguments, and what it returned.
Call(op, path, arg, flag, link) ==
    [op |-> op, path |-> path, arg |-> arg, flag |-> flag, link |-> link]

NoCall == Call("", <<>>, <<>>, FALSE, NilLink)

Ret(panic, link, err, rl, status, n) ==
    [panic |-> panic, link |-> link, err |-> err, list |-> rl, status |-> status,
     n |-> n, isOp |-> FALSE, id |-> <<>>]

NoRet == Ret(FALSE, NilLink, NoErr, NilList, 0, 0)

Panic == Ret(TRUE, NilLink, NoErr, NilList, 0, 0)

\* link, err := c.requestLink(...); if err != nil { return nil, err }; return link, nil
LinkResult(o) ==
    IF o.panic THEN Panic
    ELSE IF o.err # NoErr THEN Ret(FALSE, NilLink, o.err, NilList, 0, 0)
    ELSE Ret(FALSE, o.link, NoErr, NilList, 0, 0)

\* return c.requestOptionalOp(...)
OptionalOpResult(o) ==
    IF o.panic THEN Panic ELSE Ret(FALSE, o.link, o.err, NilList, 0, 0)

\* --------------------------------------------------------------- the server
\* strconv.Atoi on the server's side of the offset and limit parameters.
DigitValue(c) == CASE c = "0" -> 0 [] c = "1" -> 1 [] c = "2" -> 2 [] c = "3" -> 3
                   [] c = "4" -> 4 [] c = "5" -> 5 [] c = "6" -> 6 [] c = "7" -> 7
                   [] c = "8" -> 8 [] c = "9" -> 9

RECURSIVE Atoi(_)
Atoi(s) == IF s = <<>> THEN 0
           ELSE 10 * Atoi(SubSeq(s, 1, Len(s) - 1)) + DigitValue(s[Len(s)])

Min(a, b) == IF a <= b THEN a ELSE b

\* The page of a directory's items that the request's offset and limit ask for.
ServerPage(items, req) ==
    LET off == Atoi(Get(req.Query, "offset"))
        lim == Atoi(Get(req.Query, "limit"))
    IN  SubSeq(items, off + 1, Min(off + lim, Len(items)))

\* ------------------------------------------------------------------ inputs
Paths == {<<>>, <<"/","a">>}

Uris == {<<"h","t","t","p",":","/","/","x","/","f">>}

Statuses == {200, 201, 202, 204, 301, 404, 500}

Host == <<"h","t","t","p","s",":","/","/","h">>

HrefOperation == Host \o <<"/","v","1">> \o OperationsMark \o <<"/","1","2","3">>

HrefResource == Host \o <<"/","v","1","/","d","i","s","k","/","r","e","s","o","u","r","c","e","s","/","f","o","o">>

HrefBadEscape == Host \o <<"/","%">>

ServerMethods == {MethodGet, MethodPut, <<>>, <<"B"," ","D">>}

LinkBodies ==
    {LinkBody(h, m, t) : h \in {HrefOperation, HrefResource, HrefBadEscape},
                         m \in ServerMethods, t \in BOOLEAN}
    \cup {BadBody, NullBody, EmptyObject}

LinkResponses == {TransportFailure} \cup {Response(s, b) : s \in Statuses, b \in LinkBodies}

\* The second response of Upload: its body is never read.
UploadResponses ==
    {TransportFailure} \cup {Response(s, b) : s \in Statuses, b \in {BadBody, EmptyObject}}

StatusStrings == {StSuccess, StFailure, StInProgress, <<>>, <<"d","o","n","e">>}

StatusResponses ==
    {TransportFailure}
    \cup {Response(s, b) : s \in Statuses,
                           b \in {StatusBody(x) : x \in StatusStrings} \cup {BadBody, NullBody}}

\* The Hrefs the Link queries are tried on: every concatenation of the parts.
HrefPrefixes == {<<>>, Host}

HrefDirs == {<<>>, <<"/","v","1">>, <<"/","v","1","/","d","i","s","k">>, <<"/","d","i","s","k">>}

HrefNames == {<<>>, <<"/","o","p","e","r","a","t","i","o","n","s">>,
              <<"/","o","p","e","r","a","t","i","o","n","s","x">>,
              <<"/","r","e","s","o","u","r","c","e","s">>}

HrefIds == {<<>>, <<"/">>, <<"/","1","2","3">>, <<"/","f","o","o">>}

HrefSuffixes == {<<>>, <<"?">>, <<"?","a","=","b","/","c">>, <<"?","i","d","=","1","2","3">>,
                 <<"#","f","/","g">>, <<"/","%">>}

Hrefs == {p \o d \o n \o i \o s : p \in HrefPrefixes, d \in HrefDirs, n \in HrefNames,
                                  i \in HrefIds, s \in HrefSuffixes}

\* The Links OpStatus is called with.
OpLinks ==
    {Link(h, m, FALSE) :
        h \in {HrefOperation, HrefResource, HrefBadEscape,
               HrefOperation \o <<"?","a","=","b","/","c">>,
               Host \o <<"/","o","p","e","r","a","t","i","o","n","s","/","7">>},
        m \in ServerMethods}

\* -------------------------------------------------------------------- Init
\* NewClient: the default URL; no call has been made.
Init ==
    /\ URL = defaultURL
    /\ pc = "idle"
    /\ call = NoCall
    /\ reqs = <<>>
    /\ resps = <<>>
    /\ ret = NoRet
    /\ dir = <<>>
    /\ changes = 0
    /\ list = NilList
    /\ offset = 0

\* A call that runs to its return in one step: the requests it sent, the
\* responses it got for them, and its results.
Return(c, sent, received, r) ==
    /\ pc' = "done"
    /\ call' = c
    /\ reqs' = sent
    /\ resps' = SubSeq(received, 1, Len(sent))
    /\ ret' = r
    /\ UNCHANGED <<URL, dir, changes, list, offset>>


\* ----------------------------------------------------------------- listing
PageSize == 100

ListVals(path, off, limit) ==
    Set(Set(Set(Set(NoVals, "path", path), "offset", Itoa(off)), "limit", Itoa(limit)),
        "sort", SortName)

\* List after its do: the body is decoded into a Resource, which must be a
\* directory; its SubList is nil when the body has no _embedded member.
decodeList(d) ==
    LET rt == UnmarshalResourceType(d.body.type)
    IN  IF d.panic THEN [panic |-> TRUE, sent |-> d.sent, list |-> NilList, err |-> NoErr]
        ELSE IF d.err # NoErr
             THEN [panic |-> FALSE, sent |-> d.sent, list |-> NilList, err |-> d.err]
        ELSE IF d.body.kind = "bad" \/ (d.body.kind = "obj" /\ rt.err # NoErr)
             THEN [panic |-> FALSE, sent |-> d.sent, list |-> NilList, err |-> JSONErr]
        ELSE IF d.body.kind = "null" \/ rt.rt # ResourceTypeDir
             THEN [panic |-> FALSE, sent |-> d.sent, list |-> NilList,
                   err |-> TextErr("not a directory")]
        ELSE [panic |-> FALSE, sent |-> d.sent,
              list |-> IF d.body.embedded THEN ResourceList(d.body.items, 0) ELSE NilList,
              err |-> NoErr]

\* List returns one page of directory contents sorted by name.
List(path, off, limit, resp) ==
    decodeList(do(MethodGet, EpResources, ListVals(path, off, limit), resp))

\* What the server may answer to a page request: the page asked for, or one
\* of the answers that make the request fail or the body unusable.
PageResponses(items, req) ==
    {Response(200, ResourceBody("dir", TRUE, ServerPage(items, req))),
     TransportFailure,
     Response(404, EmptyObject),
     Response(500, BadBody),
     Response(200, BadBody),
     Response(200, NullBody),
     Response(200, ResourceBody("file", FALSE, <<>>)),
     Response(200, ResourceBody("other", FALSE, <<>>)),
     Response(200, ResourceBody("malformed", FALSE, <<>>)),
     Response(200, ResourceBody("dir", FALSE, <<>>))}

\* LastPage with the short-page test left out: only an empty page ends the loop.
LastPageEmptyOnly(l) == Len(l.Items) = 0

\* len(l.Items) == 0 || len(l.Items) < 100
LastPage(l) == Len(l.Items) = 0 \/ Len(l.Items) < PageSize

\* offset += 100
NextOffset(off) == off + PageSize

\* AppendItems that assigns the page instead of appending it.
AppendItemsReplace(acc, l) == [acc EXCEPT !.Items = l.Items]

\* list.Items = append(list.Items, l.Items...)
AppendItems(acc, l) == [acc EXCEPT !.Items = @ \o l.Items]

\* ListAll up to its first request: list := &ResourceList{}; offset := 0.  The
\* directory is what the server holds at path when the call starts.
ListAllBegin ==
    /\ pc = "idle"
    /\ \E path \in Paths, n \in 0..MaxItems :
        /\ call' = Call("ListAll", path, <<>>, FALSE, NilLink)
        /\ dir' = [i \in 1..n |-> i]
    /\ pc' = "ListAll"
    /\ list' = ResourceList(<<>>, 0)
    /\ offset' = 0
    /\ changes' = 0
    /\ UNCHANGED <<URL, reqs, resps, ret>>

\* ListAll's loop body after its call of List: an error or a nil list ends
\* the call, a last page ends it with the list, any other page moves the offset.
ListAllStep(l, resp) ==
    /\ reqs' = reqs \o l.sent
    /\ resps' = IF l.sent = <<>> THEN resps ELSE Append(resps, resp)
    /\ IF l.panic \/ (l.err = NoErr /\ l.list.nil)
       THEN /\ pc' = "done"
            /\ ret' = Panic
            /\ UNCHANGED <<list, offset>>
       ELSE IF l.err # NoErr
       THEN /\ pc' = "done"
            /\ ret' = Ret(FALSE, NilLink, l.err, NilList, 0, 0)
            /\ UNCHANGED <<list, offset>>
       ELSE IF LastPage(l.list)
       THEN /\ pc' = "done"
            /\ list' = [AppendItems(list, l.list) EXCEPT
                           !.Limit = Len(AppendItems(list, l.list).Items)]
            /\ ret' = Ret(FALSE, NilLink, NoErr, list', 0, 0)
            /\ UNCHANGED offset
       ELSE /\ list' = AppendItems(list, l.list)
            /\ offset' = NextOffset(offset)
            /\ UNCHANGED <<pc, ret>>

\* One round of ListAll's loop: the page request, its answer, and either the
\* return or the next offset.
ListAllPage ==
    /\ pc = "ListAll"
    /\ \E resp \in PageResponses(dir, newRequest(MethodGet, EpResources,
                                     ListVals(call.path, offset, PageSize)).req) :
        ListAllStep(List(call.path, offset, PageSize, resp), resp)
    /\ UNCHANGED <<URL, call, dir, changes>>

\* The directory changes on the server while ListAll is between two pages: its
\* first item is removed, or a new item is put in front.
ServerChange ==
    /\ pc = "ListAll"
    /\ changes < MaxChanges
    /\ \/ dir # <<>> /\ dir' = Tail(dir)
       \/ dir' = <<0 - (changes + 1)>> \o dir
    /\ changes' = changes + 1
    /\ UNCHANGED <<URL, pc, call, reqs, resps, ret, list, offset>>


\* --------------------------------------------------------- the other calls
\* Stats after its do; the model keeps only the error of the decoding.
StatsResult(d) ==
    IF d.panic THEN Panic
    ELSE IF d.err # NoErr THEN Ret(FALSE, NilLink, d.err, NilList, 0, 0)
    ELSE IF d.body.kind = "bad" THEN Ret(FALSE, NilLink, JSONErr, NilList, 0, 0)
    ELSE NoRet

\* Stats returns Disk statistics (free space, used space, etc.).
Stats ==
    /\ pc = "idle"
    /\ \E resp \in LinkResponses :
        Return(Call("Stats", <<>>, <<>>, FALSE, NilLink),
               do(MethodGet, EpRoot, NoVals, resp).sent, <<resp>>,
               StatsResult(do(MethodGet, EpRoot, NoVals, resp)))

\* Download after its link request.  newRequest gives back the *http.Request
\* (nil when NewRequest failed, and then it panics); the request is never
\* handed to HTTP.Do, and its Body is nil because no body was given, so
\* resp.Body.Close panics.
DownloadResult(o) ==
    IF o.panic THEN Panic
    ELSE IF o.err # NoErr THEN Ret(FALSE, NilLink, o.err, NilList, 0, 0)
    ELSE IF ~newRequest(o.link.Method, o.link.Href, NoVals).ok THEN Panic
    ELSE Panic

Download ==
    /\ pc = "idle"
    /\ \E path \in Paths, resp \in LinkResponses :
        Return(Call("Download", path, <<>>, FALSE, NilLink),
               requestLink(MethodGet, EpDownload, Set(NoVals, "path", path), resp).sent,
               <<resp>>,
               DownloadResult(requestLink(MethodGet, EpDownload,
                                          Set(NoVals, "path", path), resp)))

\* Upload after its link request: a request made by newRequest on the link and
\* sent with HTTP.Do; only 201 Created is a success.
UploadContent(c, o, nr, resp, resp2) ==
    IF o.panic THEN Return(c, o.sent, <<resp>>, Panic)
    ELSE IF o.err # NoErr
         THEN Return(c, o.sent, <<resp>>, Ret(FALSE, NilLink, o.err, NilList, 0, 0))
    ELSE IF ~nr.ok THEN Return(c, o.sent, <<resp>>, Panic)
    ELSE IF resp2.neterr
         THEN Return(c, o.sent \o <<nr.req>>, <<resp, resp2>>,
                     Ret(FALSE, NilLink, NetErr, NilList, 0, 0))
    ELSE IF resp2.StatusCode # StatusCreated
         THEN Return(c, o.sent \o <<nr.req>>, <<resp, resp2>>,
                     Ret(FALSE, NilLink, TextErr("server responsed"), NilList, 0, 0))
    ELSE Return(c, o.sent \o <<nr.req>>, <<resp, resp2>>, NoRet)

UploadLink(c, o, resp, resp2) ==
    UploadContent(c, o, newRequest(o.link.Method, o.link.Href, NoVals), resp, resp2)

Upload ==
    /\ pc = "idle"
    /\ \E path \in Paths, resp \in LinkResponses, resp2 \in UploadResponses :
        UploadLink(Call("Upload", path, <<>>, FALSE, NilLink),
                   requestLink(MethodGet, EpUpload,
                               Set(Set(NoVals, "path", path), "overwrite", FormatBool(TRUE)),
                               resp),
                   resp, resp2)

UploadInternet ==
    /\ pc = "idle"
    /\ \E path \in Paths, uri \in Uris, resp \in LinkResponses :
        LET o == requestLink(MethodPost, EpUpload,
                             Set(Set(NoVals, "path", path), "url", uri), resp)
        IN  Return(Call("UploadInternet", path, uri, FALSE, NilLink), o.sent, <<resp>>,
                   LinkResult(o))

Copy ==
    /\ pc = "idle"
    /\ \E path \in Paths, from \in Paths, resp \in LinkResponses :
        LET o == requestLink(MethodPost, EpCopy,
                             Set(Set(Set(NoVals, "path", path), "from", from),
                                 "overwrite", FormatBool(TRUE)), resp)
        IN  Return(Call("Copy", path, from, FALSE, NilLink), o.sent, <<resp>>, LinkResult(o))

Move ==
    /\ pc = "idle"
    /\ \E path \in Paths, from \in Paths, resp \in LinkResponses :
        LET o == requestLink(MethodPost, EpMove,
                             Set(Set(Set(NoVals, "path", path), "from", from),
                                 "overwrite", FormatBool(TRUE)), resp)
        IN  Return(Call("Move", path, from, FALSE, NilLink), o.sent, <<resp>>, LinkResult(o))

Delete ==
    /\ pc = "idle"
    /\ \E path \in Paths, permanent \in BOOLEAN, resp \in LinkResponses :
        LET o == requestOptionalOp(MethodDelete, EpResources,
                                   Set(Set(NoVals, "path", path),
                                       "permanently", FormatBool(permanent)), resp)
        IN  Return(Call("Delete", path, <<>>, permanent, NilLink), o.sent, <<resp>>,
                   OptionalOpResult(o))

MkDir ==
    /\ pc = "idle"
    /\ \E path \in Paths, resp \in LinkResponses :
        LET o == requestLink(MethodPut, EpResources, Set(NoVals, "path", path), resp)
        IN  Return(Call("MkDir", path, <<>>, FALSE, NilLink), o.sent, <<resp>>, LinkResult(o))

\* PathIsEmpty with the guard dropped.
PathIsEmptyNever(path) == FALSE

\* The guard of TrashDelete: with empty path all trash objects are removed.
PathIsEmpty(path) == path = <<>>

TrashDelete ==
    /\ pc = "idle"
    /\ \E path \in Paths, resp \in LinkResponses :
        LET o == requestOptionalOp(MethodDelete, EpTrash, Set(NoVals, "path", path), resp)
            c == Call("TrashDelete", path, <<>>, FALSE, NilLink)
        IN  IF PathIsEmpty(path)
            THEN Return(c, <<>>, <<>>,
                        Ret(FALSE, NilLink, TextErr("path is empty"), NilList, 0, 0))
            ELSE Return(c, o.sent, <<resp>>, OptionalOpResult(o))

TrashDeleteAll ==
    /\ pc = "idle"
    /\ \E resp \in LinkResponses :
        LET o == requestOptionalOp(MethodDelete, EpTrash, NoVals, resp)
        IN  Return(Call("TrashDeleteAll", <<>>, <<>>, FALSE, NilLink), o.sent, <<resp>>,
                   OptionalOpResult(o))

TrashRestore ==
    /\ pc = "idle"
    /\ \E path \in Paths, newPath \in Paths, resp \in LinkResponses :
        LET base == Set(Set(NoVals, "overwrite", FormatBool(FALSE)), "path", path)
            vals == IF newPath # <<>> THEN Set(base, "name", newPath) ELSE base
            o    == requestLink(MethodPut, EpTrashRestore, vals, resp)
        IN  Return(Call("TrashRestore", path, newPath, FALSE, NilLink), o.sent, <<resp>>,
                   LinkResult(o))

\* StatusOf whose default case returns the zero Status without an error.
StatusOfDefault(s) ==
    CASE s = StSuccess    -> [err |-> NoErr, s |-> StatusSuccess]
      [] s = StFailure    -> [err |-> NoErr, s |-> StatusFailure]
      [] s = StInProgress -> [err |-> NoErr, s |-> StatusInProgress]
      [] OTHER            -> [err |-> NoErr, s |-> 0]

\* The switch of OpStatus on the decoded status string.
StatusOf(s) ==
    CASE s = StSuccess    -> [err |-> NoErr, s |-> StatusSuccess]
      [] s = StFailure    -> [err |-> NoErr, s |-> StatusFailure]
      [] s = StInProgress -> [err |-> NoErr, s |-> StatusInProgress]
      [] OTHER            -> [err |-> TextErr("invalid status"), s |-> 0]

\* NotOperation with the guard dropped.
NotOperationNever(op) == FALSE

\* The guard of OpStatus: only a Link of an operation is asked about.
NotOperation(op) == ~IsOperation(op)

\* OpStatus after its guard and its newRequest.
OpStatusRequest(c, nr, resp) ==
    LET rb == readBody(resp)
        st == StatusOf(rb.body.status)
    IN  IF ~nr.ok THEN Return(c, <<>>, <<>>, Panic)
        ELSE IF resp.neterr
             THEN Return(c, <<nr.req>>, <<resp>>, Ret(FALSE, NilLink, NetErr, NilList, 0, 0))
        ELSE IF rb.err # NoErr
             THEN Return(c, <<nr.req>>, <<resp>>, Ret(FALSE, NilLink, rb.err, NilList, 0, 0))
        ELSE IF rb.body.kind = "bad"
             THEN Return(c, <<nr.req>>, <<resp>>, Ret(FALSE, NilLink, JSONErr, NilList, 0, 0))
        ELSE Return(c, <<nr.req>>, <<resp>>, Ret(FALSE, NilLink, st.err, NilList, st.s, 0))

OpStatus ==
    /\ pc = "idle"
    /\ \E op \in OpLinks, resp \in StatusResponses :
        IF NotOperation(op)
        THEN Return(Call("OpStatus", <<>>, <<>>, FALSE, op), <<>>, <<>>,
                    Ret(FALSE, NilLink, TextErr("not operation"), NilList, 0, 0))
        ELSE OpStatusRequest(Call("OpStatus", <<>>, <<>>, FALSE, op),
                             newRequest(op.Method, EpOperations,
                                        Set(NoVals, "id", Operation(op))),
                             resp)

\* The two queries of a Link, asked of one Link.
LinkQueries ==
    /\ pc = "idle"
    /\ \E href \in Hrefs :
        LET l == Link(href, MethodGet, FALSE)
        IN  Return(Call("Link", <<>>, <<>>, FALSE, l), <<>>, <<>>,
                   [NoRet EXCEPT !.isOp = IsOperation(l), !.id = Operation(l)])

Next ==
    \/ ListAllBegin
    \/ ListAllPage
    \/ ServerChange
    \/ Stats
    \/ Download
    \/ Upload
    \/ UploadInternet
    \/ Copy
    \/ Move
    \/ Delete
    \/ MkDir
    \/ TrashDelete
    \/ TrashDeleteAll
    \/ TrashRestore
    \/ OpStatus
    \/ LinkQueries

Spec == Init /\ [][Next]_vars


\* ================================================================= claims
Done(op) == pc = "done" /\ call.op = op

\* A response that arrived with a status in 200-299.
Is2xx(r) == ~r.neterr /\ r.StatusCode >= 200 /\ r.StatusCode < 300

\* A response that arrived with a status outside 200-299.
IsNon2xx(r) == ~r.neterr /\ (r.StatusCode < 200 \/ r.StatusCode >= 300)

\* A body that is a JSON object of a Link that is not templated.
PlainLinkBody(b) == b.kind = "obj" /\ ~b.templated

BodyLink(b) == Link(b.href, b.method, FALSE)

\* Every page request was answered with the page of dir it asked for.
HonestPages ==
    \A i \in 1..Len(resps) :
        resps[i] = Response(200, ResourceBody("dir", TRUE, ServerPage(dir, reqs[i])))

\* ListAll has returned, the directory did not change during the call and
\* every page request succeeded.
ListAllUndisturbed == Done("ListAll") /\ changes = 0 /\ HonestPages

\* C1: ListAll on a directory of n >= 0 items that does not change during the
\* call, every page request succeeding, returns a non-nil list and a nil
\* error, and the list's Items are the directory's items in server order,
\* each once (for n = 0 an empty, non-nil list).
C1_ListAllReturnsDirectory ==
    ListAllUndisturbed =>
        /\ ~ret.panic
        /\ ret.err = NoErr
        /\ ~ret.list.nil
        /\ ret.list.Items = dir
        /\ \A i \in 1..Len(ret.list.Items) : ret.list.Items[i] = i

C1_Witness ==
    /\ ListAllUndisturbed
    /\ Len(dir) = 2 * PageSize + 1
    /\ ret.list.Items = dir

C1_WitnessEmpty == ListAllUndisturbed /\ dir = <<>> /\ ~ret.list.nil /\ ret.list.Items = <<>>

\* A response that is a page of a directory listing, and its number of items.
IsPage(r) ==
    Is2xx(r) /\ r.Body.kind = "obj" /\ r.Body.type = "dir" /\ r.Body.embedded

PageLen(r) == Len(r.Body.items)

\* C9: ListAll asks for its pages one after another with limit 100 and offsets
\* 0, 100, 200, ...; it goes on after a page exactly when the page has 100
\* items, and stops right after the first page with fewer than 100 (zero
\* included); on a directory of n items that does not change it returns after
\* exactly floor(n/100) + 1 requests.
C9_ListAllPaging ==
    call.op = "ListAll" =>
        /\ \A i \in 1..Len(reqs) :
            /\ reqs[i].Method = MethodGet
            /\ reqs[i].URL = URL \o EpResources
            /\ Get(reqs[i].Query, "limit") = <<"1","0","0">>
            /\ Atoi(Get(reqs[i].Query, "offset")) = 100 * (i - 1)
        /\ Len(resps) = Len(reqs)
        /\ \A i \in 1..(Len(resps) - 1) : IsPage(resps[i]) /\ PageLen(resps[i]) = 100
        /\ (pc = "ListAll" /\ resps # <<>>) =>
                IsPage(resps[Len(resps)]) /\ PageLen(resps[Len(resps)]) = 100
        /\ (pc = "done" /\ ~ret.panic /\ ret.err = NoErr) =>
                IsPage(resps[Len(resps)]) /\ PageLen(resps[Len(resps)]) < 100
        /\ ListAllUndisturbed => Len(reqs) = (Len(dir) \div 100) + 1

C9_Witness ==
    /\ ListAllUndisturbed
    /\ Len(dir) = 200
    /\ Len(reqs) = 3
    /\ PageLen(resps[2]) = 100
    /\ PageLen(resps[3]) = 0

\* C6: OpStatus called with a Link that does not identify an operation returns
\* an error and issues no network request.
C6_OpStatusNotOperation ==
    (Done("OpStatus") /\ ~Contains(call.link.Href, OperationsMark)) =>
        /\ ~ret.panic
        /\ ret.err # NoErr
        /\ reqs = <<>>
        /\ resps = <<>>

C6_Witness ==
    /\ Done("OpStatus")
    /\ call.link.Href = HrefResource
    /\ ret.err = TextErr("not operation")
    /\ reqs = <<>>

\* The status string of a 2xx response: the member "status" of a JSON object;
\* none (the empty string) when the body is null or not JSON.
DecodedStatus(r) == IF r.Body.kind = "obj" THEN r.Body.status ELSE <<>>

\* C7: OpStatus on an operation Link whose status request succeeds maps
\* "success", "failure" and "in-progress" to StatusSuccess, StatusFailure and
\* StatusInProgress with a nil error, and returns an error for any other
\* status string, the empty or missing one included.
C7_OpStatusMapping ==
    (Done("OpStatus") /\ Len(resps) = 1 /\ Is2xx(resps[1])) =>
        LET s == DecodedStatus(resps[1])
        IN  /\ ~ret.panic
            /\ s = <<"s","u","c","c","e","s","s">> =>
                    ret.err = NoErr /\ ret.status = StatusSuccess
            /\ s = <<"f","a","i","l","u","r","e">> =>
                    ret.err = NoErr /\ ret.status = StatusFailure
            /\ s = <<"i","n","-","p","r","o","g","r","e","s","s">> =>
                    ret.err = NoErr /\ ret.status = StatusInProgress
            /\ s \notin {<<"s","u","c","c","e","s","s">>, <<"f","a","i","l","u","r","e">>,
                         <<"i","n","-","p","r","o","g","r","e","s","s">>} =>
                    ret.err # NoErr

C7_Witness ==
    /\ Done("OpStatus")
    /\ Len(resps) = 1
    /\ Is2xx(resps[1])
    /\ resps[1].Body.status = StInProgress
    /\ ret.status = StatusInProgress
    /\ ret.err = NoErr

C7_WitnessUnknown ==
    /\ Done("OpStatus")
    /\ Len(resps) = 1
    /\ Is2xx(resps[1])
    /\ resps[1].Body.kind = "obj"
    /\ resps[1].Body.status = <<>>
    /\ ret.err = TextErr("invalid status")

\* A DELETE to trash/resources that carries no path parameter: it empties
\* the trash.
EmptiesTrash(req) ==
    req.Method = MethodDelete /\ req.URL = URL \o EpTrash /\ ~Has(req.Query, "path")

\* C10: TrashDelete with an empty path returns an error without issuing a
\* request; every request TrashDelete issues carries a non-empty path, and a
\* DELETE to trash/resources without a path parameter, among the requests a
\* call builds from the client's own endpoints, is TrashDeleteAll's.
C10_TrashDeleteEmptyPath ==
    /\ (Done("TrashDelete") /\ call.path = <<>>) =>
            ~ret.panic /\ ret.err # NoErr /\ ret.link.nil /\ reqs = <<>>
    /\ Done("TrashDelete") =>
            \A i \in 1..Len(reqs) : Has(reqs[i].Query, "path") /\ Get(reqs[i].Query, "path") # <<>>
    /\ \A i \in 1..Len(reqs) :
            (EmptiesTrash(reqs[i]) /\ ~(call.op = "Upload" /\ i = 2)) => call.op = "TrashDeleteAll"

C10_Witness ==
    /\ Done("TrashDelete")
    /\ call.path = <<>>
    /\ ret.err = TextErr("path is empty")
    /\ reqs = <<>>

C10_WitnessAll == Done("TrashDeleteAll") /\ Len(reqs) = 1 /\ EmptiesTrash(reqs[1])


\* The one response of a call that sent exactly one request and got an answer.
Answered == Len(resps) = 1 /\ ~resps[1].neterr

\* C2: a Delete whose response is 204 No Content returns (nil, nil); one whose
\* response is 202 Accepted with the body of a Link returns that Link,
\* populated from the body, and a nil error; any other status returns a nil
\* Link and an error decoded from the response body (the Error with the status
\* code when the body is JSON, the decoding error when it is not).  A 202
\* whose Link is templated, or whose body is not JSON, is the error that the
\* rule for templated links and the decoding make of it.
C2_DeleteStatuses ==
    (Done("Delete") /\ Answered) =>
        LET r == resps[1]
        IN  /\ r.StatusCode = 204 => ~ret.panic /\ ret.link.nil /\ ret.err = NoErr
            /\ (r.StatusCode = 202 /\ PlainLinkBody(r.Body)) =>
                    ~ret.panic /\ ret.link = BodyLink(r.Body) /\ ret.err = NoErr
            /\ (r.StatusCode = 202 /\ r.Body.kind = "obj" /\ r.Body.templated) =>
                    ~ret.panic /\ ret.link.nil /\ ret.err # NoErr
            /\ (r.StatusCode = 202 /\ r.Body.kind = "bad") =>
                    ~ret.panic /\ ret.link.nil /\ ret.err # NoErr
            /\ r.StatusCode \notin {202, 204} =>
                    /\ ~ret.panic
                    /\ ret.link.nil
                    /\ ret.err # NoErr
                    /\ r.Body.kind # "bad" => ret.err = ErrorValue(r.StatusCode)

C2_Witness ==
    /\ Done("Delete")
    /\ Answered
    /\ resps[1].StatusCode = 202
    /\ PlainLinkBody(resps[1].Body)
    /\ ret.link.Href = HrefOperation
    /\ ret.err = NoErr

C2_WitnessNoContent ==
    Done("Delete") /\ Answered /\ resps[1].StatusCode = 204 /\ ret.link.nil /\ ret.err = NoErr

\* The calls that get their Link through requestLink and hand it back.
LinkCalls == {"Copy", "Move", "UploadInternet", "TrashRestore"}

\* C3 as stated: Copy, Move, UploadInternet and TrashRestore treat the status
\* alike: 204 yields no link and no error, 202 yields the Link decoded from
\* the body and no error, any other status yields an error (bodies that are
\* the JSON null left aside).
C3_AsStated ==
    (pc = "done" /\ call.op \in LinkCalls /\ Answered /\ resps[1].Body.kind # "null") =>
        LET r == resps[1]
        IN  /\ r.StatusCode = 204 => ret.link.nil /\ ret.err = NoErr
            /\ (r.StatusCode = 202 /\ PlainLinkBody(r.Body)) =>
                    ret.link = BodyLink(r.Body) /\ ret.err = NoErr
            /\ r.StatusCode \notin {202, 204} => ret.err # NoErr

\* C3, amended: Copy, Move, UploadInternet and TrashRestore treat the status
\* alike: any status in 200-299 whose body is the JSON object of a Link that
\* is not templated yields that Link and no error; a status in 200-299 whose
\* body is not JSON (the empty body of a 204) or is a templated Link yields no
\* link and an error; any status outside 200-299 yields no link and an error.
C3_LinkCallStatuses ==
    (pc = "done" /\ call.op \in LinkCalls /\ Answered) =>
        LET r == resps[1]
        IN  /\ (Is2xx(r) /\ PlainLinkBody(r.Body)) =>
                    ~ret.panic /\ ret.link = BodyLink(r.Body) /\ ret.err = NoErr
            /\ (Is2xx(r) /\ r.Body.kind = "bad") =>
                    ~ret.panic /\ ret.link.nil /\ ret.err = JSONErr
            /\ (Is2xx(r) /\ r.Body.kind = "obj" /\ r.Body.templated) =>
                    ~ret.panic /\ ret.link.nil /\ ret.err # NoErr
            /\ IsNon2xx(r) => ~ret.panic /\ ret.link.nil /\ ret.err # NoErr

C3_Witness ==
    /\ Done("Copy")
    /\ Answered
    /\ resps[1].StatusCode = 201
    /\ PlainLinkBody(resps[1].Body)
    /\ ret.link.Href = HrefResource
    /\ ret.err = NoErr

C3_WitnessNoContent ==
    /\ Done("TrashRestore")
    /\ Answered
    /\ resps[1] = Response(204, BadBody)
    /\ ret.link.nil
    /\ ret.err = JSONErr

\* The Link that the first request of Download or Upload obtained.
ObtainedLink ==
    /\ Len(resps) >= 1
    /\ Is2xx(resps[1])
    /\ PlainLinkBody(resps[1].Body)

\* C4: Upload and Download each perform two requests in order: the request
\* that obtains the Link, then a request sent with the Link's Method to the
\* Link's Href itself; Download returns the number of bytes of the second
\* response written to the writer, and Upload returns nil exactly when the
\* second response has status 201 Created.  (Stated for a Link with a valid
\* method and an Href that parses.)
C4_TwoRequests ==
    (pc = "done" /\ call.op \in {"Download", "Upload"} /\ ObtainedLink
        /\ ValidMethod(resps[1].Body.method) /\ Parse(resps[1].Body.href).ok
        /\ resps[1].Body.href # <<>>) =>
        /\ ~ret.panic
        /\ Len(reqs) = 2
        /\ reqs[2].Method = resps[1].Body.method
        /\ reqs[2].URL = resps[1].Body.href
        /\ call.op = "Upload" =>
                (ret.err = NoErr <=> (~resps[2].neterr /\ resps[2].StatusCode = 201))

\* What the code does instead, for the record of C4: Download panics after
\* its first request, and Upload sends its second request to c.URL+Href.
C4_Observed ==
    (pc = "done" /\ call.op \in {"Download", "Upload"} /\ ObtainedLink) =>
        /\ call.op = "Download" => ret.panic /\ Len(reqs) = 1
        /\ (call.op = "Upload" /\ ~ret.panic) =>
                /\ Len(reqs) = 2
                /\ reqs[2].URL = URL \o resps[1].Body.href
                /\ (ret.err = NoErr <=> (~resps[2].neterr /\ resps[2].StatusCode = 201))

\* The responses a call got with a status outside 200-299.
Refused == {i \in 1..Len(resps) : IsNon2xx(resps[i])}

\* C5 as stated: whenever a response has a status outside 200-299 the
\* operation fails with an Error value whose StatusCode is that status (the
\* body being JSON).
C5_AsStated ==
    pc = "done" =>
        \A i \in Refused :
            resps[i].Body.kind # "bad" =>
                ~ret.panic /\ ret.err = ErrorValue(resps[i].StatusCode)

\* C5, amended: no operation reports success for a response outside 200-299;
\* every response but the one to Upload's second request is read by readBody
\* or readErrBody, and then the error is an Error value with the response's
\* status when the body is JSON and the JSON decoding error otherwise;
\* Upload's second request fails with a plain error for any status but 201;
\* and a 2xx body read by readBody reaches the decoding unchanged.
C5_ErrorStatuses ==
    pc = "done" =>
        /\ \A i \in Refused :
            /\ ~ret.panic
            /\ ret.err # NoErr
            /\ ~(call.op = "Upload" /\ i = 2) =>
                    ret.err = (IF resps[i].Body.kind = "bad" THEN JSONErr
                               ELSE ErrorValue(resps[i].StatusCode))
        /\ (call.op = "Upload" /\ Len(resps) = 2 /\ ~resps[2].neterr
                /\ resps[2].StatusCode # 201) => ret.err = TextErr("server responsed")
        /\ (call.op \in LinkCalls \cup {"MkDir"} /\ Answered /\ Is2xx(resps[1])
                /\ PlainLinkBody(resps[1].Body)) => ret.link = BodyLink(resps[1].Body)

C5_Witness ==
    /\ Done("MkDir")
    /\ Answered
    /\ resps[1] = Response(404, EmptyObject)
    /\ ret.err = ErrorValue(404)

C5_WitnessUpload ==
    /\ Done("Upload")
    /\ Len(resps) = 2
    /\ resps[2] = Response(500, EmptyObject)
    /\ ret.err = TextErr("server responsed")

\* The path of an Href, its segments, and its last segment.
HrefPath(href) == Parse(href).Path

PathSegments(href) == Split(HrefPath(href), "/")

LastSegment(href) == PathSegments(href)[Len(PathSegments(href))]

HasOperationsSegment(href) ==
    /\ Parse(href).ok
    /\ \E k \in 1..Len(PathSegments(href)) :
            PathSegments(href)[k] = <<"o","p","e","r","a","t","i","o","n","s">>

\* C8 as stated: IsOperation() is true exactly when the path of the Href
\* contains the operations segment; when it is true Operation() returns the
\* last path segment of the Href, and when it is false the empty string.
C8_AsStated ==
    Done("Link") =>
        /\ ret.isOp <=> HasOperationsSegment(call.link.Href)
        /\ ret.isOp => ret.id = LastSegment(call.link.Href)
        /\ ~ret.isOp => ret.id = <<>>

\* The text after the last '/' of a string.
AfterLastSlash(s) == From(s, LastIndexOf(s, "/") + 1)

\* C8, amended: IsOperation() is true exactly when the Href contains the
\* text "/disk/operations"; when it is true and the Href parses as a URL,
\* Operation() returns the text after the last '/' of the Href's request URI
\* (its path and "?query"), which is the last path segment when the Href has
\* no query; when it is true and the Href does not parse, or when it is
\* false, Operation() returns the empty string.
C8_LinkQueries ==
    Done("Link") =>
        LET href == call.link.Href
            u    == Parse(href)
        IN  /\ ret.isOp <=>
                   \E i \in 1..(Len(href) - 15) :
                       SubSeq(href, i, i + 15) =
                           <<"/","d","i","s","k","/","o","p","e","r","a","t","i","o","n","s">>
            /\ (ret.isOp /\ u.ok) => ret.id = AfterLastSlash(RequestURI(u))
            /\ (ret.isOp /\ u.ok /\ u.RawQuery = <<>> /\ ~u.ForceQuery) =>
                   ret.id = LastSegment(href)
            /\ (ret.isOp /\ ~u.ok) => ret.id = <<>>
            /\ ~ret.isOp => ret.id = <<>>

C8_Witness ==
    /\ Done("Link")
    /\ call.link.Href = HrefOperation
    /\ ret.isOp
    /\ ret.id = <<"1","2","3">>

C8_WitnessResource ==
    Done("Link") /\ call.link.Href = HrefResource /\ ~ret.isOp /\ ret.id = <<>>

====
